---- MODULE Spec2Model ----
(***************************************************************************)
(* A model of the agent supervision loop of add-agent:                     *)
(*   main                    (src/src/index.ts)                            *)
(*   runAgent                (src/src/agent-runner.ts, the Supervisor)     *)
(*   waitForAgentCompletion  (the Completion Poller)                       *)
(*   streamEventsToSupabase  (the Event Stream Consumer) and handleEvent   *)
(* together with the collaborators they talk to: the run record written    *)
(* by the user's stop request, the session status endpoint, the event feed *)
(* and the wall clock.                                                     *)
(***************************************************************************)
EXTENDS Integers, Sequences, FiniteSets, TLC

(***************************************************************************)
(* Program constants.                                                      *)
(***************************************************************************)
STATUS_POLL_INTERVAL_MS == 2000
STOP_CHECK_INTERVAL_MS == 1000
EVENT_STREAM_MAX_RETRIES == 5
STATUS_ERROR_LIMIT == 3
DIFF_KEY_PREFIX_LEN == 100
DIFF_TRUNCATE_LEN == 5000
REASONING_MESSAGE_LEN == 100
TOOL_OUTPUT_LEN == 2000

(***************************************************************************)
(* Bounds of the model.                                                    *)
(***************************************************************************)
\* Date.now() when the run starts (any wall clock value of at least one
\* stop-check interval behaves alike: lastStopCheck starts at 0).
StartClock == 5000
\* The clock is followed for this many milliseconds after StartClock: in the
\* whole system (Horizon) and in the Poller taken alone (PollerHorizon).
Horizon == 3000
PollerHorizon == 6000
\* Latency a network call of the Poller may add to the clock.
LatencyMs == 1000
\* Events the feed delivers in one run, and file entries in one diff event.
MaxEvents == 2
MaxBatch == 2

Min(a, b) == IF a <= b THEN a ELSE b

RECURSIVE Pow2(_)
Pow2(n) == IF n <= 0 THEN 1 ELSE 2 * Pow2(n - 1)

(***************************************************************************)
(* Values.                                                                 *)
(***************************************************************************)
None == "<none>"
StoppedByUser == "Stopped by user"
ServerUnavailable == "OpenCode server unavailable while checking session status"
SessionLost == "OpenCode server returned no status for active session"
CreateFailed == "Failed to create session"
PromptFailed == "Failed to send prompt"
FetchFailed == "fetch failed"
GitFailed == "git push failed"

RetryMessages == {"rate limited", "overloaded"}

\* What client.session.status can answer: a failed query, or a mapping in
\* which the active session is absent, idle, busy or retrying with a message.
StatusResults ==
    {[error |-> TRUE, type |-> None, message |-> None]}
    \cup {[error |-> FALSE, type |-> t, message |-> None] : t \in {"absent", "idle", "busy"}}
    \cup {[error |-> FALSE, type |-> "retry", message |-> m] : m \in RetryMessages}

\* Strings that matter character by character are sequences of characters.
LongText(c) == [i \in 1..(DIFF_KEY_PREFIX_LEN + 1) |-> IF i <= DIFF_KEY_PREFIX_LEN THEN "x" ELSE c]

DiffEntry(f, a) == [file |-> f, before |-> <<>>, after |-> a, additions |-> 3, deletions |-> 1]

\* File entries of session.diff events: paths and contents with and without
\* ':', and two contents that differ only after their first 100 characters.
DiffEntryList ==
    << DiffEntry(<<"a">>, <<":", "b">>),
       DiffEntry(<<"a", ":">>, <<"b">>),
       DiffEntry(<<"a">>, LongText("y")),
       DiffEntry(<<"a">>, LongText("z")) >>

DiffEntries == {DiffEntryList[i] : i \in DOMAIN DiffEntryList}

RECURSIVE PickEntries(_, _)
\* The entries of DiffEntryList at the positions S, from position i on.
PickEntries(S, i) ==
    IF i > Len(DiffEntryList)
    THEN <<>>
    ELSE (IF i \in S THEN <<DiffEntryList[i]>> ELSE <<>>) \o PickEntries(S, i + 1)

\* The diff lists of session.diff events: up to MaxBatch distinct entries.
DiffBatches ==
    {PickEntries(S, 1) : S \in {T \in SUBSET DOMAIN DiffEntryList : Cardinality(T) <= MaxBatch}}

\* The session runAgent created, and another session of the same server.
ActiveSession == "ses_run"
OtherSession == "ses_other"

DiffEvents ==
    {[type |-> "session.diff", sessionID |-> ActiveSession, diff |-> b] : b \in DiffBatches}
OtherEvent == [type |-> "message.updated"]
\* An event of a handled type that arrives without its properties.
MalformedEvent == [type |-> "session.diff"]

\* The characters String.prototype.trim removes.
Whitespace == {" ", "\n", "\t"}

\* The text of a reasoning part: empty (or missing), whitespace only, short,
\* of exactly 100 characters, and of 101 characters.
ReasoningTexts ==
    { <<>>,
      <<" ", "\n">>,
      <<"o", "k">>,
      [i \in 1..REASONING_MESSAGE_LEN |-> "x"],
      LongText("y") }
ReasoningEvent(t) ==
    [type |-> "message.part.updated",
     part |-> [type |-> "reasoning", sessionID |-> ActiveSession, text |-> t]]
ReasoningEvents == {ReasoningEvent(t) : t \in ReasoningTexts}

\* A streamed token of the answer.
TextEvent ==
    [type |-> "message.part.updated",
     part |-> [type |-> "text", sessionID |-> ActiveSession, text |-> <<"h", "i">>]]

\* A text of n characters whose last one differs from the others.
Text(n) == [i \in 1..n |-> IF i = n THEN "y" ELSE "x"]

\* The state of a tool part: completed with a title and a short output, with
\* no title and an output of exactly 2000 characters, with an empty title and
\* an output of 2001 characters, with no output; running; pending.
ToolStates ==
    { [status |-> "completed", input |-> "ls", title |-> <<"List files">>, output |-> <<"o", "k">>],
      [status |-> "completed", input |-> "ls", output |-> Text(TOOL_OUTPUT_LEN)],
      [status |-> "completed", input |-> "ls", title |-> <<>>, output |-> Text(TOOL_OUTPUT_LEN + 1)],
      [status |-> "completed", input |-> "ls", title |-> <<"List files">>],
      [status |-> "running", input |-> "ls", title |-> <<"List files">>],
      [status |-> "pending", input |-> "ls"] }
\* Tool parts, with a state and without one.
ToolParts ==
    {[type |-> "tool", sessionID |-> ActiveSession, tool |-> <<"bash">>, callID |-> "call_1",
      state |-> st] : st \in ToolStates}
    \cup {[type |-> "tool", sessionID |-> ActiveSession, tool |-> <<"bash">>, callID |-> "call_1"]}
ToolEvents == {[type |-> "message.part.updated", part |-> p] : p \in ToolParts}

\* session.error events, with and without an error payload.
ErrorEvents ==
    { [type |-> "session.error", sessionID |-> ActiveSession, error |-> [name |-> "ProviderAuthError"]],
      [type |-> "session.error", sessionID |-> ActiveSession] }

Todo(status) == [content |-> "write tests", status |-> status]
\* todo.updated events: some items, no item, no list.
TodoEvents ==
    { [type |-> "todo.updated", sessionID |-> ActiveSession,
       todos |-> <<Todo("completed"), Todo("in_progress"), Todo("pending")>>],
      [type |-> "todo.updated", sessionID |-> ActiveSession, todos |-> <<Todo("completed")>>],
      [type |-> "todo.updated", sessionID |-> ActiveSession, todos |-> <<>>],
      [type |-> "todo.updated", sessionID |-> ActiveSession] }

\* The same event as another session of the server sends it.
Foreign(ev) ==
    IF ev.type = "message.part.updated"
    THEN [ev EXCEPT !.part.sessionID = OtherSession]
    ELSE [ev EXCEPT !.sessionID = OtherSession]

\* One event of each handled type from the other session.
ForeignEvents ==
    { Foreign(ReasoningEvent(<<"o", "k">>)),
      Foreign([type |-> "message.part.updated",
               part |-> [type |-> "tool", sessionID |-> ActiveSession, tool |-> <<"bash">>,
                         callID |-> "call_1",
                         state |-> [status |-> "completed", input |-> "ls",
                                    title |-> <<"List files">>, output |-> <<"o", "k">>]]]),
      Foreign([type |-> "session.diff", sessionID |-> ActiveSession,
               diff |-> <<DiffEntry(<<"a">>, <<":", "b">>)>>]),
      Foreign([type |-> "session.error", sessionID |-> ActiveSession,
               error |-> [name |-> "ProviderAuthError"]]),
      Foreign([type |-> "todo.updated", sessionID |-> ActiveSession,
               todos |-> <<Todo("completed")>>]) }

\* Every event the model has, and those the feed delivers when the Consumer
\* is followed through its reconnects.
Events ==
    DiffEvents \cup ReasoningEvents \cup ToolEvents \cup ErrorEvents \cup TodoEvents
    \cup ForeignEvents \cup {TextEvent, OtherEvent, MalformedEvent}
FeedEvents == DiffEvents \cup {OtherEvent, MalformedEvent}
\* The events the feed delivers when the whole system is followed.
CoreEvents ==
    { OtherEvent,
      [type |-> "session.diff", sessionID |-> ActiveSession,
       diff |-> <<DiffEntry(<<"a">>, <<":", "b">>), DiffEntry(<<"a">>, LongText("y"))>>] }

VARIABLES
    now,               \* Date.now()
    rcs,               \* the run record: [status, error]
    stopWrittenAt,     \* clock value at which the user's stop was written, or -1
    mainPc,            \* position of main
    mainCalls,         \* the calls main has made to record how the run ended
    supPc,             \* position of runAgent
    thrown,            \* message of the error runAgent threw, or None
    serverStarted,     \* createOpencodeServer has returned
    abortCount,        \* calls of eventStreamAbort.abort()
    closeCount,        \* calls of server.close()
    deleteCount,       \* calls of client.session.delete
    pollerPc,          \* position of waitForAgentCompletion
    pollerOutcome,     \* how waitForAgentCompletion ended
    statusErrorCount,
    lastStopCheck,
    lastRetryMessage,
    sleepMs,           \* duration of the sleep the Poller is in
    queryHist,         \* every answer client.session.status has given
    pollerLog,         \* entries the Poller handed to logProgress
    stopObservedAt,    \* Len(queryHist) when isStopRequested returned true, or -1
    sessionAbortCalls, \* calls of client.session.abort
    abortError,        \* client.session.abort threw
    stopAtIdle,        \* the run record read "Stopped by user" when idle was returned
    exitClock,         \* clock value at which the Poller ended, or -1
    consPc,            \* position of streamEventsToSupabase
    consEnd,           \* why streamEventsToSupabase returned
    attempt,
    loggedDiffKeys,
    batch,             \* file entries of the diff event being handled, not yet seen
    consLog,           \* entries the Consumer handed to logProgress
    firstOpens,        \* outcomes of client.event.subscribe up to its first success
    subscribeCalls,    \* calls of client.event.subscribe
    consDelays,        \* every backoff sleep of the Consumer, in order
    received,          \* events the feed has yielded
    handled,           \* events passed to handleEvent
    handledDiffs,      \* file entries the diff loop has gone through
    burstStart,        \* attempt as it was when the feed was last opened
    reasoningTexts,    \* the text of every reasoning part passed to handleEvent
    toolParts,         \* every tool part passed to handleEvent
    foreignCalls,      \* the handleEvent calls whose event is of another session
    consLogSrc,        \* for each entry of consLog: <<handleEvent call, file entry>>
    batchSrc           \* for each entry of batch: <<handleEvent call, file entry>>

pollerVars == <<pollerPc, pollerOutcome, statusErrorCount, lastStopCheck,
                lastRetryMessage, sleepMs, queryHist, pollerLog, stopObservedAt,
                sessionAbortCalls, abortError, stopAtIdle, exitClock>>
supVars == <<supPc, thrown, serverStarted, abortCount, closeCount, deleteCount>>
consVars == <<consPc, consEnd, attempt, loggedDiffKeys, batch, consLog, firstOpens,
              subscribeCalls, consDelays, received, handled, handledDiffs,
              burstStart, reasoningTexts, toolParts, foreignCalls, consLogSrc, batchSrc>>
vars == <<now, rcs, stopWrittenAt, mainPc, mainCalls, supVars, pollerVars, consVars>>

(***************************************************************************)
(* Pure helpers.                                                           *)
(***************************************************************************)
\* A backoff that grows by 1000 ms per attempt instead of doubling.
getRetryDelayLinear(n) == Min(1000 * n, 10000)

getRetryDelay(n) == Min(1000 * Pow2(n - 1), 10000)

\* getAgentRunStatus: the run record as it reads at the moment of the call.
getAgentRunStatus == rcs

\* isStopRequested, given the record getAgentRunStatus returned.
isStopRequested(status) ==
    status.status = "failed" /\ status.error = StoppedByUser

\* updateAgentRun: the error column is written only when an error is given.
updateAgentRun(run, status, error) ==
    [status |-> status, error |-> IF error # None THEN error ELSE run.error]

\* s.slice(0, n)
Slice(s, n) == SubSeq(s, 1, Min(n, Len(s)))

\* s.length > cap ? s.slice(0, cap) + "\n... (truncated)" : s
Truncate(s, cap) ==
    IF Len(s) > cap THEN Slice(s, cap) \o <<"\n... (truncated)">> ELSE s

\* `${diff.file}:${(diff.after || "").slice(0, 100)}`
diffKey(diff) == diff.file \o <<":">> \o Slice(diff.after, DIFF_KEY_PREFIX_LEN)

\* The session_changes entry handleEvent logs for one file entry.
ChangesEntry(diff) ==
    [kind |-> "session_changes",
     message |-> <<diff.file, " (+", diff.additions, "/-", diff.deletions, ")">>,
     file |-> diff.file,
     before |-> Truncate(diff.before, DIFF_TRUNCATE_LEN),
     after |-> Truncate(diff.after, DIFF_TRUNCATE_LEN),
     additions |-> diff.additions,
     deletions |-> diff.deletions]

\* The file entries handleEvent loops over for one event.
DiffsOf(ev) == IF ev.type = "session.diff" THEN ev.diff ELSE <<>>

\* text.trim() is empty
IsBlank(text) == \A i \in DOMAIN text : text[i] \in Whitespace

\* A cut at 99 characters instead of 100.
ReasoningMessageShort(text) ==
    IF Len(text) > REASONING_MESSAGE_LEN - 1
    THEN Slice(text, REASONING_MESSAGE_LEN - 1) \o <<"...">>
    ELSE text

\* text.length > 100 ? text.slice(0, 100) + "..." : text
ReasoningMessage(text) ==
    IF Len(text) > REASONING_MESSAGE_LEN
    THEN Slice(text, REASONING_MESSAGE_LEN) \o <<"...">>
    ELSE text

\* The thinking entry handleEvent logs for a reasoning part.
ReasoningEntry(text) ==
    [kind |-> "thinking", message |-> ReasoningMessage(text), fullText |-> text]

\* A handler that logs a reasoning part twice: its message and its full text.
PartEntriesTwice(ev) ==
    IF ev.type = "message.part.updated" /\ ev.part.type = "reasoning" /\ ~IsBlank(ev.part.text)
    THEN <<ReasoningEntry(ev.part.text), ReasoningEntry(ev.part.text)>>
    ELSE <<>>

\* A condition that lets a running tool through as well.
IsCompletedOrRunningTool(part) ==
    /\ part.type = "tool"
    /\ "state" \in DOMAIN part
    /\ part.state.status \in {"completed", "running"}

\* partType === "tool" && state?.status === "completed"
IsCompletedTool(part) ==
    /\ part.type = "tool"
    /\ "state" \in DOMAIN part
    /\ part.state.status = "completed"

\* The tool_call entry handleEvent logs for a completed tool part: the
\* message is title || tool, the output is cut when it is longer than 2000
\* characters and is left out when the state has none.
ToolEntry(part) ==
    LET state == part.state
        message == IF "title" \in DOMAIN state /\ state.title # <<>>
                   THEN state.title
                   ELSE part.tool
    IN IF "output" \in DOMAIN state
       THEN [kind |-> "tool_call", message |-> message, tool |-> part.tool,
             input |-> state.input, callId |-> part.callID,
             output |-> Truncate(state.output, TOOL_OUTPUT_LEN)]
       ELSE [kind |-> "tool_call", message |-> message, tool |-> part.tool,
             input |-> state.input, callId |-> part.callID]

\* The entries handleEvent logs for a message.part.updated event.
PartEntries(ev) ==
    IF ev.type # "message.part.updated"
    THEN <<>>
    ELSE IF ev.part.type = "reasoning"
         THEN IF ~IsBlank(ev.part.text) THEN <<ReasoningEntry(ev.part.text)>> ELSE <<>>
         ELSE IF IsCompletedTool(ev.part) THEN <<ToolEntry(ev.part)>> ELSE <<>>

\* JSON.stringify of an error payload, which has a name.
JSONStringify(error) == "{\"name\":\"" \o error.name \o "\"}"

\* The entries handleEvent logs for a session.error event.
ErrorEntries(ev) ==
    IF ev.type = "session.error" /\ ev.sessionID = ActiveSession
    THEN <<[kind |-> "error",
            message |-> IF "error" \in DOMAIN ev THEN JSONStringify(ev.error)
                                                ELSE "Unknown error"]>>
    ELSE <<>>

\* todos.filter((t) => t.status === status).length
CountTodos(todos, status) == Cardinality({i \in DOMAIN todos : todos[i].status = status})

\* The entries handleEvent logs for a todo.updated event.
TodoEntries(ev) ==
    IF /\ ev.type = "todo.updated"
       /\ ev.sessionID = ActiveSession
       /\ "todos" \in DOMAIN ev
       /\ Len(ev.todos) > 0
    THEN <<[kind |-> "todo_update",
            message |-> <<"Todos: ", CountTodos(ev.todos, "completed"), "/", Len(ev.todos),
                          " complete">>
                        \o (IF CountTodos(ev.todos, "in_progress") > 0
                            THEN <<", ", CountTodos(ev.todos, "in_progress"), " in progress">>
                            ELSE <<>>),
            todos |-> ev.todos]>>
    ELSE <<>>

\* The entries handleEvent logs for an event outside its diff loop.
HandlerEntries(ev) == PartEntries(ev) \o ErrorEntries(ev) \o TodoEntries(ev)

\* handleEvent throws a TypeError when it reads a property of an event of a
\* handled type that has no properties.
handleEventThrows(ev) ==
    /\ ev.type \in {"message.part.updated", "session.diff", "session.error", "todo.updated"}
    /\ DOMAIN ev = {"type"}

\* The event carries the id of a session other than the one of this run.
IsForeign(ev) ==
    IF ev.type = "message.part.updated"
    THEN ev.part.sessionID # ActiveSession
    ELSE "sessionID" \in DOMAIN ev /\ ev.sessionID # ActiveSession

\* The tool part handleEvent reads from an event, if it has one.
ToolPartsOf(ev) ==
    IF ev.type = "message.part.updated" /\ ev.part.type = "tool"
    THEN <<ev.part>>
    ELSE <<>>

\* The reasoning text handleEvent reads from an event, if it has one.
ReasoningTextsOf(ev) ==
    IF ev.type = "message.part.updated" /\ ev.part.type = "reasoning"
    THEN <<ev.part.text>>
    ELSE <<>>

\* The Error object main catches, given its message: the errors runAgent
\* and waitForAgentCompletion create have neither cause nor task, a failed
\* fetch carries the network error as its cause, a git error its commands.
ErrorOf(message) ==
    [message |-> message,
     cause |-> IF message = FetchFailed THEN "connect ECONNREFUSED" ELSE None,
     commands |-> IF message = GitFailed THEN "push origin" ELSE None]

\* A handler that records a fixed text for every error.
extractErrorMessageGeneric(error) == "Agent run failed"

\* extractErrorMessage, for an Error object.
extractErrorMessage(error) ==
    IF error.cause # None
    THEN error.message \o ": " \o error.cause
    ELSE IF error.commands # None
         THEN error.message \o " (command: " \o error.commands \o ")"
         ELSE error.message

(***************************************************************************)
(* The user's stop request: the out-of-scope collaborator writes the run   *)
(* record at any moment of a run that has not ended.                       *)
(***************************************************************************)
ExternalStop ==
    /\ rcs.status = "running"
    /\ mainPc # "exited"
    /\ stopWrittenAt = -1
    /\ rcs' = [status |-> "failed", error |-> StoppedByUser]
    /\ stopWrittenAt' = now
    /\ UNCHANGED <<now, mainPc, mainCalls, supVars, pollerVars, consVars>>

(***************************************************************************)
(* waitForAgentCompletion.                                                 *)
(***************************************************************************)
\* A stop check that sees the stop request and goes on to the status query.
PollerStopCheckFallsThrough ==
    /\ pollerPc = "check"
    /\ pollerPc' = "query"
    /\ IF now - lastStopCheck >= STOP_CHECK_INTERVAL_MS
       THEN /\ lastStopCheck' = now
            /\ stopObservedAt' = IF isStopRequested(getAgentRunStatus) THEN Len(queryHist) ELSE stopObservedAt
       ELSE UNCHANGED <<lastStopCheck, stopObservedAt>>
    /\ UNCHANGED <<now, rcs, stopWrittenAt, mainPc, mainCalls, supVars, pollerOutcome,
                   statusErrorCount, lastRetryMessage, sleepMs, queryHist,
                   pollerLog, sessionAbortCalls, abortError, stopAtIdle,
                   exitClock, consVars>>

\* Loop head: the rate-limited stop check.
PollerStopCheck ==
    /\ pollerPc = "check"
    /\ IF now - lastStopCheck >= STOP_CHECK_INTERVAL_MS
       THEN /\ lastStopCheck' = now
            /\ IF isStopRequested(getAgentRunStatus)
               THEN /\ pollerPc' = "stopping"
                    /\ stopObservedAt' = Len(queryHist)
               ELSE /\ pollerPc' = "query"
                    /\ UNCHANGED stopObservedAt
       ELSE /\ pollerPc' = "query"
            /\ UNCHANGED <<lastStopCheck, stopObservedAt>>
    /\ UNCHANGED <<now, rcs, stopWrittenAt, mainPc, mainCalls, supVars, pollerOutcome,
                   statusErrorCount, lastRetryMessage, sleepMs, queryHist,
                   pollerLog, sessionAbortCalls, abortError, stopAtIdle,
                   exitClock, consVars>>

\* A stop handling that records the aborted session in the run record.
PollerStopRecordsAbort(limit) ==
    /\ pollerPc = "stopping"
    /\ \E abortFails \in BOOLEAN, d \in {0, LatencyMs} :
         /\ now + d <= limit
         /\ now' = now + d
         /\ exitClock' = now + d
         /\ abortError' = abortFails
    /\ pollerLog' = Append(pollerLog, [kind |-> "action", message |-> <<"Stopping agent run">>])
    /\ sessionAbortCalls' = sessionAbortCalls + 1
    /\ rcs' = updateAgentRun(rcs, "failed", "Session aborted")
    /\ pollerOutcome' = StoppedByUser
    /\ pollerPc' = "done"
    /\ UNCHANGED <<stopWrittenAt, mainPc, mainCalls, supVars, statusErrorCount,
                   lastStopCheck, lastRetryMessage, sleepMs, queryHist,
                   stopObservedAt, stopAtIdle, consVars>>

\* A stop handling without the try/catch around the session abort: the
\* error of a failing abort leaves waitForAgentCompletion.
PollerStopAbortThrows(limit) ==
    /\ pollerPc = "stopping"
    /\ \E abortFails \in BOOLEAN, d \in {0, LatencyMs} :
         /\ now + d <= limit
         /\ now' = now + d
         /\ exitClock' = now + d
         /\ abortError' = abortFails
         /\ pollerOutcome' = IF abortFails THEN FetchFailed ELSE StoppedByUser
    /\ pollerLog' = Append(pollerLog, [kind |-> "action", message |-> <<"Stopping agent run">>])
    /\ sessionAbortCalls' = sessionAbortCalls + 1
    /\ pollerPc' = "done"
    /\ UNCHANGED <<rcs, stopWrittenAt, mainPc, mainCalls, supVars, statusErrorCount,
                   lastStopCheck, lastRetryMessage, sleepMs, queryHist,
                   stopObservedAt, stopAtIdle, consVars>>

\* The stop was observed: log, abort the session (a failing abort is caught
\* and logged), throw "Stopped by user".
PollerStop(limit) ==
    /\ pollerPc = "stopping"
    /\ \E abortFails \in BOOLEAN, d \in {0, LatencyMs} :
         /\ now + d <= limit
         /\ now' = now + d
         /\ exitClock' = now + d
         /\ abortError' = abortFails
    /\ pollerLog' = Append(pollerLog, [kind |-> "action", message |-> <<"Stopping agent run">>])
    /\ sessionAbortCalls' = sessionAbortCalls + 1
    /\ pollerOutcome' = StoppedByUser
    /\ pollerPc' = "done"
    /\ UNCHANGED <<rcs, stopWrittenAt, mainPc, mainCalls, supVars, statusErrorCount,
                   lastStopCheck, lastRetryMessage, sleepMs, queryHist,
                   stopObservedAt, stopAtIdle, consVars>>

\* A failed status query that is retried at once, without the backoff sleep.
PollerOnErrorNoBackoff(t) ==
    /\ statusErrorCount' = statusErrorCount + 1
    /\ IF statusErrorCount + 1 >= STATUS_ERROR_LIMIT
       THEN /\ pollerPc' = "done"
            /\ pollerOutcome' = ServerUnavailable
            /\ exitClock' = t
            /\ UNCHANGED sleepMs
       ELSE /\ pollerPc' = "sleep"
            /\ sleepMs' = 0
            /\ UNCHANGED <<pollerOutcome, exitClock>>
    /\ UNCHANGED <<lastRetryMessage, pollerLog>>

\* The loop body after a failed status query.
PollerOnError(t) ==
    /\ statusErrorCount' = statusErrorCount + 1
    /\ IF statusErrorCount + 1 >= STATUS_ERROR_LIMIT
       THEN /\ pollerPc' = "done"
            /\ pollerOutcome' = ServerUnavailable
            /\ exitClock' = t
            /\ UNCHANGED sleepMs
       ELSE /\ pollerPc' = "sleep"
            /\ sleepMs' = getRetryDelay(statusErrorCount + 1)
            /\ UNCHANGED <<pollerOutcome, exitClock>>
    /\ UNCHANGED <<lastRetryMessage, pollerLog>>

\* A missing entry taken for a session that is still running.
PollerOnAbsentKeepsPolling(t) ==
    /\ pollerPc' = "sleep"
    /\ sleepMs' = STATUS_POLL_INTERVAL_MS
    /\ UNCHANGED <<pollerOutcome, exitClock, lastRetryMessage, pollerLog>>

\* The loop body when the answer has no entry for the session.
PollerOnAbsent(t) ==
    /\ pollerPc' = "done"
    /\ pollerOutcome' = SessionLost
    /\ exitClock' = t
    /\ UNCHANGED <<sleepMs, lastRetryMessage, pollerLog>>

\* A retry notice on every retry status.
PollerOnRetryAlways(message) ==
    /\ lastRetryMessage' = message
    /\ pollerLog' = Append(pollerLog,
          [kind |-> "thinking", message |-> <<"Agent retrying: ", message>>])

\* The loop body for a retry status: the notice, if the message is new.
PollerOnRetry(message) ==
    IF message # lastRetryMessage
    THEN /\ lastRetryMessage' = message
         /\ pollerLog' = Append(pollerLog,
               [kind |-> "thinking", message |-> <<"Agent retrying: ", message>>])
    ELSE UNCHANGED <<lastRetryMessage, pollerLog>>

\* A successful status query that leaves the error counter as it is.
PollerOnSuccessNoReset(res, t) ==
    /\ UNCHANGED statusErrorCount
    /\ CASE res.type = "absent" -> PollerOnAbsent(t)
         [] res.type = "idle" ->
              /\ pollerPc' = "done"
              /\ pollerOutcome' = "Completed"
              /\ exitClock' = t
              /\ UNCHANGED <<sleepMs, lastRetryMessage, pollerLog>>
         [] OTHER ->
              /\ IF res.type = "retry"
                 THEN PollerOnRetry(res.message)
                 ELSE UNCHANGED <<lastRetryMessage, pollerLog>>
              /\ pollerPc' = "sleep"
              /\ sleepMs' = STATUS_POLL_INTERVAL_MS
              /\ UNCHANGED <<pollerOutcome, exitClock>>

\* The loop body after a successful status query.
PollerOnSuccess(res, t) ==
    /\ statusErrorCount' = 0
    /\ CASE res.type = "absent" -> PollerOnAbsent(t)
         [] res.type = "idle" ->
              /\ pollerPc' = "done"
              /\ pollerOutcome' = "Completed"
              /\ exitClock' = t
              /\ UNCHANGED <<sleepMs, lastRetryMessage, pollerLog>>
         [] OTHER ->
              /\ IF res.type = "retry"
                 THEN PollerOnRetry(res.message)
                 ELSE UNCHANGED <<lastRetryMessage, pollerLog>>
              /\ pollerPc' = "sleep"
              /\ sleepMs' = STATUS_POLL_INTERVAL_MS
              /\ UNCHANGED <<pollerOutcome, exitClock>>

\* client.session.status answers (after some latency) and the loop body runs.
PollerQuery(limit) ==
    /\ pollerPc = "query"
    /\ \E res \in StatusResults, d \in {0, LatencyMs} :
         /\ now + d <= limit
         /\ now' = now + d
         /\ queryHist' = Append(queryHist, res)
         /\ stopAtIdle' = (stopAtIdle \/ (~res.error /\ res.type = "idle" /\ isStopRequested(rcs)))
         /\ IF res.error THEN PollerOnError(now + d) ELSE PollerOnSuccess(res, now + d)
    /\ UNCHANGED <<rcs, stopWrittenAt, mainPc, mainCalls, supVars, lastStopCheck,
                   stopObservedAt, sessionAbortCalls, abortError, consVars>>

\* sleep(ms) is over: back to the loop head.
PollerSleep(limit) ==
    /\ pollerPc = "sleep"
    /\ now + sleepMs <= limit
    /\ now' = now + sleepMs
    /\ pollerPc' = "check"
    /\ UNCHANGED <<rcs, stopWrittenAt, mainPc, mainCalls, supVars, pollerOutcome,
                   statusErrorCount, lastStopCheck, lastRetryMessage, sleepMs,
                   queryHist, pollerLog, stopObservedAt, sessionAbortCalls,
                   abortError, stopAtIdle, exitClock, consVars>>

(***************************************************************************)
(* runAgent.                                                               *)
(***************************************************************************)
\* createOpencodeServer: the server starts, or the startup times out and
\* runAgent throws before its try block.
SupStartServer ==
    /\ mainPc = "agent"
    /\ supPc = "start"
    /\ \E ok \in BOOLEAN :
         IF ok
         THEN /\ serverStarted' = TRUE
              /\ supPc' = "create"
              /\ UNCHANGED thrown
         ELSE /\ supPc' = "thrown"
              /\ thrown' = FetchFailed
              /\ UNCHANGED serverStarted
    /\ UNCHANGED <<now, rcs, stopWrittenAt, mainPc, mainCalls, abortCount, closeCount,
                   deleteCount, pollerVars, consVars>>

\* The synchronous start of streamEventsToSupabase: the dedup set is cleared,
\* attempt is 0, the loop is entered and client.event.subscribe is called.
ConsumerLaunch ==
    /\ loggedDiffKeys' = {}
    /\ attempt' = 0
    /\ consPc' = "subscribing"
    /\ subscribeCalls' = subscribeCalls + 1
    /\ UNCHANGED <<consEnd, batch, consLog, firstOpens, consDelays, received,
                   handled, handledDiffs, burstStart, reasoningTexts, toolParts, foreignCalls, consLogSrc,
                   batchSrc>>

\* A session create whose error result is not checked before the Consumer
\* is launched.
SupCreateSessionLaunchFirst ==
    /\ supPc = "create"
    /\ \E r \in {"ok", "error", "throws"} :
         CASE r = "ok" -> /\ supPc' = "prompt"
                          /\ ConsumerLaunch
                          /\ UNCHANGED thrown
           [] r = "error" -> /\ supPc' = "finally"
                             /\ thrown' = CreateFailed
                             /\ ConsumerLaunch
           [] OTHER -> /\ supPc' = "finally"
                       /\ thrown' = FetchFailed
                       /\ UNCHANGED consVars
    /\ UNCHANGED <<now, rcs, stopWrittenAt, mainPc, mainCalls, serverStarted, abortCount,
                   closeCount, deleteCount, pollerVars>>

\* client.session.create: a session (and the Consumer is launched), an error
\* result, or an exception.
SupCreateSession ==
    /\ supPc = "create"
    /\ \E r \in {"ok", "error", "throws"} :
         CASE r = "ok" -> /\ supPc' = "prompt"
                          /\ ConsumerLaunch
                          /\ UNCHANGED thrown
           [] r = "error" -> /\ supPc' = "finally"
                             /\ thrown' = CreateFailed
                             /\ UNCHANGED consVars
           [] OTHER -> /\ supPc' = "finally"
                       /\ thrown' = FetchFailed
                       /\ UNCHANGED consVars
    /\ UNCHANGED <<now, rcs, stopWrittenAt, mainPc, mainCalls, serverStarted, abortCount,
                   closeCount, deleteCount, pollerVars>>

\* client.session.promptAsync, then the call of waitForAgentCompletion.
SupPrompt ==
    /\ supPc = "prompt"
    /\ \E r \in {"ok", "error", "throws"} :
         CASE r = "ok" -> /\ supPc' = "poll"
                          /\ pollerPc' = "check"
                          /\ UNCHANGED thrown
           [] r = "error" -> /\ supPc' = "finally"
                             /\ thrown' = PromptFailed
                             /\ UNCHANGED pollerPc
           [] OTHER -> /\ supPc' = "finally"
                       /\ thrown' = FetchFailed
                       /\ UNCHANGED pollerPc
    /\ UNCHANGED <<now, rcs, stopWrittenAt, mainPc, mainCalls, serverStarted, abortCount,
                   closeCount, deleteCount, pollerOutcome, statusErrorCount,
                   lastStopCheck, lastRetryMessage, sleepMs, queryHist, pollerLog,
                   stopObservedAt, sessionAbortCalls, abortError, stopAtIdle,
                   exitClock, consVars>>

\* waitForAgentCompletion has ended: a return goes on to the session delete,
\* a throw leaves the try block.
SupAfterPoller ==
    /\ supPc = "poll"
    /\ pollerPc = "done"
    /\ IF pollerOutcome = "Completed"
       THEN /\ supPc' = "delete"
            /\ UNCHANGED thrown
       ELSE /\ supPc' = "finally"
            /\ thrown' = pollerOutcome
    /\ UNCHANGED <<now, rcs, stopWrittenAt, mainPc, mainCalls, serverStarted, abortCount,
                   closeCount, deleteCount, pollerVars, consVars>>

\* client.session.delete, which may throw.
SupDeleteSession ==
    /\ supPc = "delete"
    /\ deleteCount' = deleteCount + 1
    /\ supPc' = "finally"
    /\ \E ok \in BOOLEAN : thrown' = IF ok THEN None ELSE FetchFailed
    /\ UNCHANGED <<now, rcs, stopWrittenAt, mainPc, mainCalls, serverStarted, abortCount,
                   closeCount, pollerVars, consVars>>

\* A cleanup that runs after the try block instead of in a finally block:
\* it is skipped when the block threw.
SupCleanupAfterTry ==
    /\ supPc = "finally"
    /\ IF thrown = None
       THEN /\ abortCount' = abortCount + 1
            /\ closeCount' = closeCount + 1
            /\ supPc' = "returned"
       ELSE /\ supPc' = "thrown"
            /\ UNCHANGED <<abortCount, closeCount>>
    /\ UNCHANGED <<now, rcs, stopWrittenAt, mainPc, mainCalls, thrown, serverStarted,
                   deleteCount, pollerVars, consVars>>

\* finally: eventStreamAbort.abort(); server.close().
SupFinally ==
    /\ supPc = "finally"
    /\ abortCount' = abortCount + 1
    /\ closeCount' = closeCount + 1
    /\ supPc' = IF thrown = None THEN "returned" ELSE "thrown"
    /\ UNCHANGED <<now, rcs, stopWrittenAt, mainPc, mainCalls, thrown, serverStarted,
                   deleteCount, pollerVars, consVars>>

(***************************************************************************)
(* streamEventsToSupabase and handleEvent.                                 *)
(***************************************************************************)
aborted == abortCount > 0

\* A catch block that rethrows at the ceiling instead of returning.
ConsumerCatchRethrows ==
    IF aborted
    THEN /\ consPc' = "ended"
         /\ consEnd' = "aborted"
         /\ UNCHANGED <<attempt, consDelays>>
    ELSE /\ attempt' = attempt + 1
         /\ IF attempt + 1 >= EVENT_STREAM_MAX_RETRIES
            THEN /\ consPc' = "ended"
                 /\ consEnd' = "rejected"
                 /\ UNCHANGED consDelays
            ELSE /\ consPc' = "backoff"
                 /\ consDelays' = Append(consDelays, getRetryDelay(attempt + 1))
                 /\ UNCHANGED consEnd

\* The catch block: no retry after an abort; else one more attempt is
\* counted, and the Consumer gives up at the ceiling or backs off.
ConsumerCatch ==
    IF aborted
    THEN /\ consPc' = "ended"
         /\ consEnd' = "aborted"
         /\ UNCHANGED <<attempt, consDelays>>
    ELSE /\ attempt' = attempt + 1
         /\ IF attempt + 1 >= EVENT_STREAM_MAX_RETRIES
            THEN /\ consPc' = "ended"
                 /\ consEnd' = "exhausted"
                 /\ UNCHANGED consDelays
            ELSE /\ consPc' = "backoff"
                 /\ consDelays' = Append(consDelays, getRetryDelay(attempt + 1))
                 /\ UNCHANGED consEnd

\* client.event.subscribe answers: the feed is open, or the call throws.
ConsumerSubscribe ==
    /\ consPc = "subscribing"
    /\ \E ok \in BOOLEAN :
         /\ firstOpens' = IF \E i \in DOMAIN firstOpens : firstOpens[i]
                        THEN firstOpens
                        ELSE Append(firstOpens, ok)
         /\ IF ok
            THEN /\ consPc' = "streaming"
                 /\ burstStart' = attempt
                 /\ UNCHANGED <<consEnd, attempt, consDelays>>
            ELSE /\ ConsumerCatch
                 /\ UNCHANGED burstStart
    /\ UNCHANGED <<now, rcs, stopWrittenAt, mainPc, mainCalls, supVars, pollerVars,
                   loggedDiffKeys, batch, consLog, subscribeCalls, received,
                   handled, handledDiffs, reasoningTexts, toolParts, foreignCalls, consLogSrc, batchSrc>>

\* A loop condition that does not look at the abort signal.
ConsumerBackoffDoneNoAbortCheck ==
    /\ consPc = "backoff"
    /\ IF attempt <= EVENT_STREAM_MAX_RETRIES
       THEN /\ consPc' = "subscribing"
            /\ subscribeCalls' = subscribeCalls + 1
            /\ UNCHANGED consEnd
       ELSE /\ consPc' = "ended"
            /\ consEnd' = "loopExit"
            /\ UNCHANGED subscribeCalls
    /\ UNCHANGED <<now, rcs, stopWrittenAt, mainPc, mainCalls, supVars, pollerVars,
                   attempt, loggedDiffKeys, batch, consLog, firstOpens, consDelays,
                   received, handled, handledDiffs, burstStart, reasoningTexts, toolParts, foreignCalls,
                   consLogSrc, batchSrc>>

\* The backoff sleep is over: the loop condition, then the next subscribe.
ConsumerBackoffDone ==
    /\ consPc = "backoff"
    /\ IF attempt <= EVENT_STREAM_MAX_RETRIES /\ ~aborted
       THEN /\ consPc' = "subscribing"
            /\ subscribeCalls' = subscribeCalls + 1
            /\ UNCHANGED consEnd
       ELSE /\ consPc' = "ended"
            /\ consEnd' = "loopExit"
            /\ UNCHANGED subscribeCalls
    /\ UNCHANGED <<now, rcs, stopWrittenAt, mainPc, mainCalls, supVars, pollerVars,
                   attempt, loggedDiffKeys, batch, consLog, firstOpens, consDelays,
                   received, handled, handledDiffs, burstStart, reasoningTexts, toolParts, foreignCalls,
                   consLogSrc, batchSrc>>

RECURSIVE LeadingLogged(_, _)
\* The number of entries at the head of b whose key is in keys.
LeadingLogged(b, keys) ==
    IF b = <<>> \/ diffKey(Head(b)) \notin keys
    THEN 0
    ELSE 1 + LeadingLogged(Tail(b), keys)

\* The diff loop of handleEvent over the entries b, as far as it runs without
\* suspending: the entries whose key was logged are skipped; the first other
\* one is recorded and handed to logProgress, whose completion the loop then
\* awaits with the rest of b left to do; with no such entry handleEvent
\* returns. src names, entry by entry, where the entries of b come from.
DiffLoop(b, src) ==
    LET n == LeadingLogged(b, loggedDiffKeys)
    IN /\ handledDiffs' = handledDiffs \cup {b[i] : i \in 1..Min(n + 1, Len(b))}
       /\ IF n = Len(b)
          THEN /\ batch' = <<>>
               /\ batchSrc' = <<>>
               /\ consPc' = "streaming"
               /\ UNCHANGED <<loggedDiffKeys, consLog, consLogSrc>>
          ELSE /\ loggedDiffKeys' = loggedDiffKeys \cup {diffKey(b[n + 1])}
               /\ consLog' = Append(consLog, ChangesEntry(b[n + 1]))
               /\ consLogSrc' = Append(consLogSrc, src[n + 1])
               /\ batch' = SubSeq(b, n + 2, Len(b))
               /\ batchSrc' = SubSeq(src, n + 2, Len(src))
               /\ consPc' = "handling"

\* Where the file entries of the event of handleEvent call k come from.
SrcOf(ev, k) == [i \in 1..Len(DiffsOf(ev)) |-> <<k, i>>]

\* A loop that takes the next event from the feed without awaiting
\* handleEvent: the new call runs while the entries of an earlier one are
\* still pending.
ConsumerReceiveNoAwait(ev) ==
    /\ consPc \in {"streaming", "handling"}
    /\ received < MaxEvents
    /\ received' = received + 1
    /\ IF aborted
       THEN /\ consPc' = "ended"
            /\ consEnd' = "aborted"
            /\ UNCHANGED <<handled, batch, consLog, reasoningTexts, toolParts,
                           foreignCalls, consLogSrc, batchSrc, loggedDiffKeys,
                           handledDiffs, attempt, consDelays>>
       ELSE /\ handled' = handled + 1
            /\ foreignCalls' = IF IsForeign(ev) THEN foreignCalls \cup {handled + 1}
                                                ELSE foreignCalls
            /\ IF handleEventThrows(ev)
               THEN /\ ConsumerCatch
                    /\ UNCHANGED <<reasoningTexts, toolParts, batch, batchSrc, consLog,
                                   consLogSrc, loggedDiffKeys, handledDiffs>>
               ELSE /\ reasoningTexts' = reasoningTexts \o ReasoningTextsOf(ev)
                    /\ toolParts' = toolParts \o ToolPartsOf(ev)
                    /\ IF ev.type = "session.diff"
                       THEN DiffLoop(DiffsOf(ev) \o batch, SrcOf(ev, handled + 1) \o batchSrc)
                       ELSE /\ consLog' = consLog \o HandlerEntries(ev)
                            /\ consLogSrc' = consLogSrc \o
                                  [i \in 1..Len(HandlerEntries(ev)) |-> <<handled + 1, 0>>]
                            /\ consPc' = IF HandlerEntries(ev) = <<>> THEN consPc ELSE "handling"
                            /\ UNCHANGED <<batch, batchSrc, loggedDiffKeys, handledDiffs>>
                    /\ UNCHANGED <<consEnd, attempt, consDelays>>
    /\ UNCHANGED <<now, rcs, stopWrittenAt, mainPc, mainCalls, supVars, pollerVars,
                   firstOpens, subscribeCalls, burstStart>>

\* The feed yields an event: the abort check, then handleEvent up to its
\* first await of logProgress, or to its end when it logs nothing; an
\* exception of handleEvent lands in the catch block of the stream loop.
ConsumerReceive(ev) ==
    /\ consPc = "streaming"
    /\ received < MaxEvents
    /\ received' = received + 1
    /\ IF aborted
       THEN /\ consPc' = "ended"
            /\ consEnd' = "aborted"
            /\ UNCHANGED <<handled, batch, consLog, reasoningTexts, toolParts,
                           foreignCalls, consLogSrc, batchSrc, loggedDiffKeys,
                           handledDiffs, attempt, consDelays>>
       ELSE /\ handled' = handled + 1
            /\ foreignCalls' = IF IsForeign(ev) THEN foreignCalls \cup {handled + 1}
                                                ELSE foreignCalls
            /\ IF handleEventThrows(ev)
               THEN /\ ConsumerCatch
                    /\ UNCHANGED <<reasoningTexts, toolParts, batch, batchSrc, consLog,
                                   consLogSrc, loggedDiffKeys, handledDiffs>>
               ELSE /\ reasoningTexts' = reasoningTexts \o ReasoningTextsOf(ev)
                    /\ toolParts' = toolParts \o ToolPartsOf(ev)
                    /\ IF ev.type = "session.diff"
                       THEN DiffLoop(DiffsOf(ev), SrcOf(ev, handled + 1))
                       ELSE /\ consLog' = consLog \o HandlerEntries(ev)
                            /\ consLogSrc' = consLogSrc \o
                                  [i \in 1..Len(HandlerEntries(ev)) |-> <<handled + 1, 0>>]
                            /\ consPc' = IF HandlerEntries(ev) = <<>> THEN "streaming" ELSE "handling"
                            /\ UNCHANGED <<batch, batchSrc, loggedDiffKeys, handledDiffs>>
                    /\ UNCHANGED <<consEnd, attempt, consDelays>>
    /\ UNCHANGED <<now, rcs, stopWrittenAt, mainPc, mainCalls, supVars, pollerVars,
                   firstOpens, subscribeCalls, burstStart>>

\* logProgress has completed and handleEvent resumes: the diff loop goes on
\* with the entries left, to its next await or to the end of handleEvent.
ConsumerHandleDiff ==
    /\ consPc = "handling"
    /\ DiffLoop(batch, batchSrc)
    /\ UNCHANGED <<now, rcs, stopWrittenAt, mainPc, mainCalls, supVars, pollerVars,
                   consEnd, attempt, firstOpens, subscribeCalls, consDelays,
                   received, handled, burstStart, reasoningTexts, toolParts, foreignCalls>>

\* The feed ends without an error: streamEventsToSupabase returns.
ConsumerStreamEnd ==
    /\ consPc = "streaming"
    /\ consPc' = "ended"
    /\ consEnd' = "streamEnd"
    /\ UNCHANGED <<now, rcs, stopWrittenAt, mainPc, mainCalls, supVars, pollerVars,
                   attempt, loggedDiffKeys, batch, consLog, firstOpens,
                   subscribeCalls, consDelays, received, handled, handledDiffs,
                   burstStart, reasoningTexts, toolParts, foreignCalls, consLogSrc, batchSrc>>

\* The open feed fails (a disconnect, or the abort of its request).
ConsumerStreamError ==
    /\ consPc = "streaming"
    /\ ConsumerCatch
    /\ UNCHANGED <<now, rcs, stopWrittenAt, mainPc, mainCalls, supVars, pollerVars,
                   loggedDiffKeys, batch, consLog, firstOpens, subscribeCalls,
                   received, handled, handledDiffs, burstStart, reasoningTexts, toolParts, foreignCalls, consLogSrc,
                   batchSrc>>

(***************************************************************************)
(* main.                                                                   *)
(***************************************************************************)
\* The calls of main's catch block, in order, for the error it caught.
CatchBlock(error) ==
    << [op |-> "logProgress", kind |-> "error", message |-> extractErrorMessage(error)],
       [op |-> "updateAgentRun", status |-> "failed", error |-> extractErrorMessage(error)],
       [op |-> "updateTicketStatus", status |-> "queued"],
       [op |-> "process.exit", code |-> 1] >>

\* The calls of step 7 of main, in order.
SuccessBlock ==
    << [op |-> "logProgress", kind |-> "complete"],
       [op |-> "updateTicketStatus", status |-> "review"],
       [op |-> "updateAgentRun", status |-> "complete", error |-> None],
       [op |-> "process.exit", code |-> 0] >>

\* Steps 4-6 of main (commit, push, pull request), which succeed or throw.
PublishSteps(ok) == <<[op |-> "push and createPullRequest", ok |-> ok]>>

\* Steps 0-2 (clone, branch): they succeed and runAgent is called, or one
\* throws and the catch block records the failure.
MainSetup ==
    /\ mainPc = "setup"
    /\ \E ok \in BOOLEAN :
         IF ok
         THEN /\ mainPc' = "agent"
              /\ UNCHANGED <<rcs, mainCalls>>
         ELSE /\ mainPc' = "exited"
              /\ rcs' = updateAgentRun(rcs, "failed", extractErrorMessage(ErrorOf(FetchFailed)))
              /\ mainCalls' = mainCalls \o CatchBlock(ErrorOf(FetchFailed))
    /\ UNCHANGED <<now, stopWrittenAt, supVars, pollerVars, consVars>>

\* runAgent threw: the catch block records the failure.
MainCatch ==
    /\ mainPc = "agent"
    /\ supPc = "thrown"
    /\ rcs' = updateAgentRun(rcs, "failed", extractErrorMessage(ErrorOf(thrown)))
    /\ mainCalls' = mainCalls \o CatchBlock(ErrorOf(thrown))
    /\ mainPc' = "exited"
    /\ UNCHANGED <<now, stopWrittenAt, supVars, pollerVars, consVars>>

\* A main that records the run complete as soon as runAgent has returned,
\* before the push: a failing push then records it failed as well.
MainPublishCompleteFirst ==
    /\ mainPc = "agent"
    /\ supPc = "returned"
    /\ \E ok \in BOOLEAN :
         /\ rcs' = IF ok THEN updateAgentRun(rcs, "complete", None)
                         ELSE updateAgentRun(rcs, "failed", extractErrorMessage(ErrorOf(GitFailed)))
         /\ mainCalls' = mainCalls \o <<SuccessBlock[3]>> \o PublishSteps(ok) \o
                           (IF ok THEN SuccessBlock ELSE CatchBlock(ErrorOf(GitFailed)))
    /\ mainPc' = "exited"
    /\ UNCHANGED <<now, stopWrittenAt, supVars, pollerVars, consVars>>

\* runAgent returned: steps 4-7 (commit, push, pull request) succeed and the
\* run is recorded complete, or one throws and the catch block records it.
MainPublish ==
    /\ mainPc = "agent"
    /\ supPc = "returned"
    /\ \E ok \in BOOLEAN :
         /\ rcs' = IF ok THEN updateAgentRun(rcs, "complete", None)
                         ELSE updateAgentRun(rcs, "failed", extractErrorMessage(ErrorOf(GitFailed)))
         /\ mainCalls' = mainCalls \o PublishSteps(ok) \o
                           (IF ok THEN SuccessBlock ELSE CatchBlock(ErrorOf(GitFailed)))
    /\ mainPc' = "exited"
    /\ UNCHANGED <<now, stopWrittenAt, supVars, pollerVars, consVars>>

(***************************************************************************)
(* Specifications.                                                         *)
(***************************************************************************)
PollerInit ==
    /\ pollerPc = "idle"
    /\ pollerOutcome = None
    /\ statusErrorCount = 0
    /\ lastStopCheck = 0
    /\ lastRetryMessage = None
    /\ sleepMs = 0
    /\ queryHist = <<>>
    /\ pollerLog = <<>>
    /\ stopObservedAt = -1
    /\ sessionAbortCalls = 0
    /\ abortError = FALSE
    /\ stopAtIdle = FALSE
    /\ exitClock = -1

ConsumerInit ==
    /\ consPc = "off"
    /\ consEnd = None
    /\ attempt = 0
    /\ loggedDiffKeys = {}
    /\ batch = <<>>
    /\ consLog = <<>>
    /\ firstOpens = <<>>
    /\ subscribeCalls = 0
    /\ consDelays = <<>>
    /\ received = 0
    /\ handled = 0
    /\ handledDiffs = {}
    /\ burstStart = 0
    /\ reasoningTexts = <<>>
    /\ toolParts = <<>>
    /\ foreignCalls = {}
    /\ consLogSrc = <<>>
    /\ batchSrc = <<>>

\* The whole system, from the start of main.
Init ==
    /\ now = StartClock
    /\ rcs = [status |-> "running", error |-> None]
    /\ stopWrittenAt = -1
    /\ mainPc = "setup"
    /\ mainCalls = <<>>
    /\ supPc = "start"
    /\ thrown = None
    /\ serverStarted = FALSE
    /\ abortCount = 0
    /\ closeCount = 0
    /\ deleteCount = 0
    /\ PollerInit
    /\ ConsumerInit

Next ==
    \/ ExternalStop
    \/ MainSetup
    \/ MainCatch
    \/ MainPublish
    \/ SupStartServer
    \/ SupCreateSession
    \/ SupPrompt
    \/ SupAfterPoller
    \/ SupDeleteSession
    \/ SupFinally
    \/ PollerStopCheck
    \/ PollerStop(StartClock + Horizon)
    \/ PollerQuery(StartClock + Horizon)
    \/ PollerSleep(StartClock + Horizon)
    \/ ConsumerSubscribe
    \/ ConsumerBackoffDone
    \/ \E ev \in CoreEvents : ConsumerReceive(ev)
    \/ ConsumerHandleDiff
    \/ ConsumerStreamEnd
    \/ ConsumerStreamError

Spec == Init /\ [][Next]_vars

\* The Poller taken alone, from the call of waitForAgentCompletion, with the
\* user's stop request written before the call or at any moment after it.
InitPoller ==
    /\ now = StartClock
    /\ \E stopped \in BOOLEAN :
         /\ rcs = IF stopped THEN [status |-> "failed", error |-> StoppedByUser]
                             ELSE [status |-> "running", error |-> None]
         /\ stopWrittenAt = IF stopped THEN StartClock ELSE -1
    /\ mainPc = "agent"
    /\ mainCalls = <<>>
    /\ supPc = "poll"
    /\ thrown = None
    /\ serverStarted = TRUE
    /\ abortCount = 0
    /\ closeCount = 0
    /\ deleteCount = 0
    /\ pollerPc = "check"
    /\ pollerOutcome = None
    /\ statusErrorCount = 0
    /\ lastStopCheck = 0
    /\ lastRetryMessage = None
    /\ sleepMs = 0
    /\ queryHist = <<>>
    /\ pollerLog = <<>>
    /\ stopObservedAt = -1
    /\ sessionAbortCalls = 0
    /\ abortError = FALSE
    /\ stopAtIdle = FALSE
    /\ exitClock = -1
    /\ consPc = "subscribing"
    /\ consEnd = None
    /\ attempt = 0
    /\ loggedDiffKeys = {}
    /\ batch = <<>>
    /\ consLog = <<>>
    /\ firstOpens = <<>>
    /\ subscribeCalls = 1
    /\ consDelays = <<>>
    /\ received = 0
    /\ handled = 0
    /\ handledDiffs = {}
    /\ burstStart = 0
    /\ reasoningTexts = <<>>
    /\ toolParts = <<>>
    /\ foreignCalls = {}
    /\ consLogSrc = <<>>
    /\ batchSrc = <<>>

NextPoller ==
    \/ ExternalStop
    \/ PollerStopCheck
    \/ PollerStop(StartClock + PollerHorizon)
    \/ PollerQuery(StartClock + PollerHorizon)
    \/ PollerSleep(StartClock + PollerHorizon)

SpecPoller == InitPoller /\ [][NextPoller]_vars

\* The Consumer taken alone, from its launch by runAgent, with every diff
\* event on the feed; runAgent goes on to its finally block at any moment
\* (a failed prompt) or never (the run goes on).
InitConsumer ==
    /\ now = StartClock
    /\ rcs = [status |-> "running", error |-> None]
    /\ stopWrittenAt = -1
    /\ mainPc = "agent"
    /\ mainCalls = <<>>
    /\ supPc = "prompt"
    /\ thrown = None
    /\ serverStarted = TRUE
    /\ abortCount = 0
    /\ closeCount = 0
    /\ deleteCount = 0
    /\ PollerInit
    /\ consPc = "subscribing"
    /\ consEnd = None
    /\ attempt = 0
    /\ loggedDiffKeys = {}
    /\ batch = <<>>
    /\ consLog = <<>>
    /\ firstOpens = <<>>
    /\ subscribeCalls = 1
    /\ consDelays = <<>>
    /\ received = 0
    /\ handled = 0
    /\ handledDiffs = {}
    /\ burstStart = 0
    /\ reasoningTexts = <<>>
    /\ toolParts = <<>>
    /\ foreignCalls = {}
    /\ consLogSrc = <<>>
    /\ batchSrc = <<>>

NextConsumer ==
    \/ SupPrompt
    \/ SupFinally
    \/ ConsumerSubscribe
    \/ ConsumerBackoffDone
    \/ \E ev \in FeedEvents : ConsumerReceive(ev)
    \/ ConsumerHandleDiff
    \/ ConsumerStreamEnd
    \/ ConsumerStreamError

SpecConsumer == InitConsumer /\ [][NextConsumer]_vars

\* handleEvent taken alone: the first subscribe has opened the feed, which
\* yields events of every kind and then ends.
InitNormalizer ==
    /\ now = StartClock
    /\ rcs = [status |-> "running", error |-> None]
    /\ stopWrittenAt = -1
    /\ mainPc = "agent"
    /\ mainCalls = <<>>
    /\ supPc = "prompt"
    /\ thrown = None
    /\ serverStarted = TRUE
    /\ abortCount = 0
    /\ closeCount = 0
    /\ deleteCount = 0
    /\ PollerInit
    /\ consPc = "streaming"
    /\ consEnd = None
    /\ attempt = 0
    /\ loggedDiffKeys = {}
    /\ batch = <<>>
    /\ consLog = <<>>
    /\ firstOpens = <<TRUE>>
    /\ subscribeCalls = 1
    /\ consDelays = <<>>
    /\ received = 0
    /\ handled = 0
    /\ handledDiffs = {}
    /\ burstStart = 0
    /\ reasoningTexts = <<>>
    /\ toolParts = <<>>
    /\ foreignCalls = {}
    /\ consLogSrc = <<>>
    /\ batchSrc = <<>>

NextNormalizer ==
    \/ \E ev \in Events : ConsumerReceive(ev)
    \/ ConsumerHandleDiff
    \/ ConsumerStreamEnd

SpecNormalizer == InitNormalizer /\ [][NextNormalizer]_vars

\* Another call of streamEventsToSupabase in the same process starts: it
\* clears the module's dedup set.
OtherRunLaunch ==
    /\ consPc # "off"
    /\ loggedDiffKeys' = {}
    /\ UNCHANGED <<now, rcs, stopWrittenAt, mainPc, mainCalls, supVars, pollerVars, consPc,
                   consEnd, attempt, batch, consLog, firstOpens, subscribeCalls,
                   consDelays, received, handled, handledDiffs, burstStart,
                   reasoningTexts, toolParts, foreignCalls, consLogSrc, batchSrc>>

\* The handleEvent of that other call logs a file entry of its session.diff
\* event: the key goes into the module's dedup set.
OtherRunHandleDiff ==
    /\ consPc # "off"
    /\ \E diff \in DiffEntries :
         /\ diffKey(diff) \notin loggedDiffKeys
         /\ loggedDiffKeys' = loggedDiffKeys \cup {diffKey(diff)}
    /\ UNCHANGED <<now, rcs, stopWrittenAt, mainPc, mainCalls, supVars, pollerVars, consPc,
                   consEnd, attempt, batch, consLog, firstOpens, subscribeCalls,
                   consDelays, received, handled, handledDiffs, burstStart,
                   reasoningTexts, toolParts, foreignCalls, consLogSrc, batchSrc>>

\* The Consumer of one run while a second run of the same process starts and
\* handles its own diff events.
NextTwoRuns ==
    \/ ConsumerSubscribe
    \/ ConsumerBackoffDone
    \/ \E ev \in DiffEvents : ConsumerReceive(ev)
    \/ ConsumerHandleDiff
    \/ ConsumerStreamEnd
    \/ ConsumerStreamError
    \/ OtherRunLaunch
    \/ OtherRunHandleDiff

SpecTwoRuns == InitConsumer /\ [][NextTwoRuns]_vars

(***************************************************************************)
(* Properties.                                                             *)
(***************************************************************************)
\* C1: whenever the run record already reads "Stopped by user" at the moment
\* a status query answers idle, the Poller ends with the "Stopped by user"
\* outcome and the run is never recorded as complete.
C1_StopWinsIdleRace ==
    stopAtIdle => (pollerOutcome = StoppedByUser /\ rcs.status # "complete")

\* C2: once the server has started, runAgent neither returns nor throws
\* before the cancellation signal has been raised and the server has been
\* stopped, and each happens exactly once.
C2_UnconditionalTeardown ==
    /\ abortCount <= 1
    /\ closeCount <= 1
    /\ (serverStarted /\ supPc \in {"returned", "thrown"}) =>
          (abortCount = 1 /\ closeCount = 1)

\* C2 witness: the Poller was cancelled, runAgent threw, teardown was done.
C2_Witness ==
    /\ supPc = "thrown"
    /\ thrown = StoppedByUser
    /\ abortCount = 1
    /\ closeCount = 1

\* C3: whatever the outcome of the Poller, the session delete has been
\* issued when runAgent finishes.
C3_DeleteOnEveryOutcome ==
    (pollerPc = "done" /\ supPc \in {"returned", "thrown"}) => deleteCount >= 1

\* The DedupKey of a file entry: its path and the first 100 characters of
\* its content.
DedupPair(d) == <<d.file, Slice(d.after, DIFF_KEY_PREFIX_LEN)>>

ChangesWithPair(pair) ==
    {i \in DOMAIN consLog :
        consLog[i].kind = "session_changes" /\ DedupPair(consLog[i]) = pair}

\* C4: for every (file, first 100 characters of after) pair the diff loop
\* has gone through, exactly one session_changes entry was handed to
\* logProgress.
C4_OneChangesEntryPerPair ==
    \A d \in handledDiffs : Cardinality(ChangesWithPair(DedupPair(d))) = 1

\* C5: once a stop check has read "Stopped by user", no status query is
\* issued any more, and the Poller ends with one session abort and the
\* "Stopped by user" outcome.
C5_StopHandling ==
    /\ sessionAbortCalls <= 1
    /\ stopObservedAt >= 0 =>
          /\ Len(queryHist) = stopObservedAt
          /\ pollerPc \in {"stopping", "done"}
          /\ pollerPc = "done" =>
                (pollerOutcome = StoppedByUser /\ sessionAbortCalls = 1)
    /\ pollerOutcome = StoppedByUser => stopObservedAt >= 0

\* C5 witness: the stop was read after two status queries and the Poller
\* ended.
C5_Witness ==
    /\ stopObservedAt = 2
    /\ pollerPc = "done"
    /\ pollerOutcome = StoppedByUser
    /\ sessionAbortCalls = 1

\* C6: after the stop has been written, a Poller that is still running is
\* within one stop-check interval of the write, and a Poller that ended on
\* the stop ended within one stop-check interval of the write.
C6_StopWithinOneInterval ==
    /\ (stopWrittenAt >= 0 /\ pollerPc \in {"check", "stopping", "query", "sleep"}) =>
          now - stopWrittenAt <= STOP_CHECK_INTERVAL_MS
    /\ (stopWrittenAt >= 0 /\ pollerOutcome = StoppedByUser) =>
          exitClock - stopWrittenAt <= STOP_CHECK_INTERVAL_MS

RECURSIVE TrailingErrors(_)
\* The failed status queries since the last successful one.
TrailingErrors(h) ==
    IF h = <<>> \/ ~h[Len(h)].error
    THEN 0
    ELSE 1 + TrailingErrors(SubSeq(h, 1, Len(h) - 1))

\* C7: statusErrorCount is the number of failed queries since the last
\* successful one; the Poller ends server-unavailable exactly when that
\* number is 3, and no query follows a third consecutive failure.
C7_StatusFailureCeiling ==
    /\ statusErrorCount = TrailingErrors(queryHist)
    /\ TrailingErrors(queryHist) <= 3
    /\ (pollerOutcome = ServerUnavailable) <=> (TrailingErrors(queryHist) = 3)
    /\ pollerOutcome = ServerUnavailable => pollerPc = "done"

\* C7 witness: a failure, a success, then three failures in a row.
C7_Witness ==
    /\ pollerOutcome = ServerUnavailable
    /\ Len(queryHist) = 5
    /\ queryHist[1].error
    /\ ~queryHist[2].error

\* C8: an answer without an entry for the session is the last answer: the
\* Poller has ended, with the session-lost outcome.
C8_SessionLost ==
    \A i \in DOMAIN queryHist :
        (~queryHist[i].error /\ queryHist[i].type = "absent") =>
            /\ i = Len(queryHist)
            /\ pollerPc = "done"
            /\ pollerOutcome = SessionLost

\* C8 witness: the session was lost at the second query.
C8_Witness ==
    /\ Len(queryHist) = 2
    /\ ~queryHist[2].error
    /\ queryHist[2].type = "absent"
    /\ pollerOutcome = SessionLost

RECURSIVE RetryNotices(_, _)
\* The notices due for a sequence of answers: one for every retry status
\* whose message differs from that of the last notice.
RetryNotices(h, last) ==
    IF h = <<>>
    THEN <<>>
    ELSE IF ~Head(h).error /\ Head(h).type = "retry" /\ Head(h).message # last
         THEN <<[kind |-> "thinking", message |-> <<"Agent retrying: ", Head(h).message>>]>>
                 \o RetryNotices(Tail(h), Head(h).message)
         ELSE RetryNotices(Tail(h), last)

IsThinking(e) == e.kind = "thinking"

\* C9: the thinking entries of the Poller are, in order, one per retry
\* status whose message differs from that of the last notice.
C9_RetryNoticeDedup ==
    SelectSeq(pollerLog, IsThinking) = RetryNotices(queryHist, None)

\* C9 witness: the same retry message twice, then another one: two notices.
C9_Witness ==
    /\ Len(queryHist) = 3
    /\ queryHist[1].type = "retry"
    /\ queryHist[2] = queryHist[1]
    /\ queryHist[3].type = "retry"
    /\ queryHist[3] # queryHist[1]
    /\ Len(SelectSeq(pollerLog, IsThinking)) = 2

\* C10: the backoff sleeps never decrease and never exceed 10000 ms; when
\* the first 4 subscribes failed and the 5th succeeded, with no cancellation,
\* the Consumer slept 1000, 2000, 4000 and 8000 ms, subscribed 5 times and
\* has passed every event the feed yielded to handleEvent.
C10_ReconnectBackoff ==
    /\ \A i \in DOMAIN consDelays :
          /\ consDelays[i] <= 10000
          /\ i > 1 => consDelays[i - 1] <= consDelays[i]
    /\ (firstOpens = <<FALSE, FALSE, FALSE, FALSE, TRUE>> /\ ~aborted) =>
          /\ consDelays = <<1000, 2000, 4000, 8000>>
          /\ subscribeCalls = 5
          /\ handled = received

\* C10 witness: the 5th subscribe succeeded and two events were handled.
C10_Witness ==
    /\ firstOpens = <<FALSE, FALSE, FALSE, FALSE, TRUE>>
    /\ ~aborted
    /\ consDelays = <<1000, 2000, 4000, 8000>>
    /\ handled = 2
    /\ consLog # <<>>

\* C11: the attempt counter counts the failures of one burst only: when the
\* Consumer gives up at the retry ceiling, 5 failures have been counted
\* since the feed was last opened successfully.
C11_PerBurstCounter ==
    consEnd = "exhausted" => attempt - burstStart >= EVENT_STREAM_MAX_RETRIES

\* The ways streamEventsToSupabase returns.
ConsumerReturns == {"aborted", "exhausted", "loopExit", "streamEnd"}

\* C12: the Consumer ends by returning, never by rejecting; the step in
\* which it ends changes neither the run record nor the position of main,
\* runAgent or the Poller; and what runAgent throws or returns after the
\* Poller has run is what the Poller ended with (or the failure of the
\* session delete that follows a completed Poller).
C12_ConsumerFailureIsolation ==
    /\ [][(consPc # "ended" /\ consPc' = "ended") =>
            /\ consEnd' \in ConsumerReturns
            /\ UNCHANGED <<rcs, mainPc, supVars, pollerVars>>]_vars
    /\ [](consPc = "ended" => consEnd \in ConsumerReturns)
    /\ []((pollerPc = "done" /\ supPc \in {"returned", "thrown"}) =>
            IF pollerOutcome = "Completed"
            THEN thrown \in {None, FetchFailed}
            ELSE thrown = pollerOutcome)

\* C12 witness: the Consumer gave up at the ceiling, the Poller went on to
\* see the session idle and runAgent returned.
C12_Witness ==
    /\ consEnd = "exhausted"
    /\ pollerOutcome = "Completed"
    /\ queryHist # <<>>
    /\ supPc = "returned"

\* C13: once the abort signal is raised, no step issues a subscribe call or
\* counts an attempt, and a Consumer that ends does so by returning, not at
\* the retry ceiling.
C13_NoReopenAfterCancel ==
    [][aborted =>
        /\ subscribeCalls' = subscribeCalls
        /\ attempt' = attempt
        /\ (consPc # "ended" /\ consPc' = "ended") =>
              consEnd' \in {"aborted", "loopExit", "streamEnd"}]_vars

\* C13 witness: the signal was raised during a backoff sleep and the
\* Consumer left its loop without another subscribe.
C13_Witness ==
    /\ aborted
    /\ consEnd = "loopExit"
    /\ subscribeCalls = 2
    /\ attempt = 2

\* C14: once the abort signal is raised, the Consumer hands no entry to
\* logProgress.
C14_BatchDiscardedOnCancel ==
    [][aborted => consLog' = consLog]_vars

\* C15: when the Poller ended with "Stopped by user" and main has exited,
\* the abort signal was raised and the server closed, once each, and the run
\* record reads failed with the error "Stopped by user"; it never reads
\* complete after that outcome.
C15_CancellationRecord ==
    /\ (pollerOutcome = StoppedByUser /\ mainPc = "exited") =>
          /\ rcs = [status |-> "failed", error |-> StoppedByUser]
          /\ abortCount = 1
          /\ closeCount = 1
    /\ pollerOutcome = StoppedByUser => rcs.status # "complete"

\* C15 witness: the run was stopped after one status query and main exited.
C15_Witness ==
    /\ pollerOutcome = StoppedByUser
    /\ Len(queryHist) = 1
    /\ supPc = "thrown"
    /\ mainPc = "exited"

\* C16: the Consumer is launched only once the session exists and is
\* launched when the prompt is submitted; the Poller starts only after the
\* prompt; the session delete comes only after a completed Poller; a failed
\* session create leaves no Consumer, no prompt and no Poller, a failed
\* prompt no status query.
C16_StepOrder ==
    /\ supPc = "start" => ~serverStarted
    /\ supPc \in {"start", "create"} => (consPc = "off" /\ pollerPc = "idle")
    /\ consPc # "off" => (serverStarted /\ supPc \notin {"start", "create"})
    /\ supPc = "prompt" => (consPc # "off" /\ pollerPc = "idle" /\ queryHist = <<>>)
    /\ pollerPc # "idle" => (consPc # "off" /\ supPc \notin {"start", "create", "prompt"})
    /\ deleteCount <= 1
    /\ deleteCount = 1 => (pollerPc = "done" /\ pollerOutcome = "Completed")
    /\ thrown = CreateFailed =>
          (consPc = "off" /\ pollerPc = "idle" /\ queryHist = <<>> /\ deleteCount = 0)
    /\ thrown = PromptFailed =>
          (consPc # "off" /\ pollerPc = "idle" /\ queryHist = <<>> /\ deleteCount = 0)

\* C16 witness: a run that went through every step.
C16_Witness ==
    /\ serverStarted
    /\ consPc # "off"
    /\ queryHist # <<>>
    /\ deleteCount = 1
    /\ supPc = "returned"

\* C17: no two entries handed to logProgress come from the same handleEvent
\* call.
C17_ZeroOrOnePerEvent ==
    \A i, j \in DOMAIN consLogSrc : i # j => consLogSrc[i][1] # consLogSrc[j][1]

\* C17 as amended: no two entries handed to logProgress come from the same
\* file entry of a session.diff event, or from the same event of another
\* type: handling one event gives zero or one entry per file entry of a
\* session.diff event, and zero or one entry for an event of any other type.
C17_ZeroOrOnePerFileEntry ==
    /\ \A i, j \in DOMAIN consLogSrc : i # j => consLogSrc[i] # consLogSrc[j]
    /\ \A i \in DOMAIN consLogSrc :
          (consLogSrc[i][2] = 0) <=> (consLog[i].kind # "session_changes")

\* C17 witness: one session.diff event gave two entries.
C17_Witness ==
    /\ handled = 1
    /\ consLogSrc = <<<<1, 1>>, <<1, 2>>>>
    /\ consPc = "streaming"

\* C18: the entries were handed to logProgress in the order of their events,
\* and the entries still pending belong to the event taken last: no event is
\* taken from the feed while entries of an earlier one are pending.
C18_ConsumerOrdering ==
    /\ \A i, j \in DOMAIN consLogSrc : i < j => consLogSrc[i][1] <= consLogSrc[j][1]
    /\ \A i \in DOMAIN consLogSrc : consLogSrc[i][1] <= handled
    /\ \A i \in DOMAIN batchSrc : batchSrc[i][1] = handled

\* C18 witness: entries of two events, the feed having been reopened.
C18_Witness ==
    /\ consLogSrc = <<<<1, 1>>, <<2, 1>>>>
    /\ subscribeCalls = 2
    /\ firstOpens = <<TRUE>>

\* The session_changes entries logged under the key of a file entry.
ChangesWithKey(key) ==
    {i \in DOMAIN consLog :
        consLog[i].kind = "session_changes" /\ diffKey(consLog[i]) = key}

\* C19: whatever a second run of the same process does, the Consumer has
\* handed exactly one session_changes entry to logProgress for every key of
\* a file entry its diff loop has gone through.
C19_PerRunDedupIsolation ==
    \A d \in handledDiffs : Cardinality(ChangesWithKey(diffKey(d))) = 1

RECURSIVE ExpectedThinking(_)
\* The thinking entries due for a sequence of reasoning texts: none for a
\* text without a non-whitespace character, else one whose message is the
\* text, or its first 100 characters and an ellipsis when it is longer.
ExpectedThinking(texts) ==
    IF texts = <<>>
    THEN <<>>
    ELSE LET t == Head(texts)
         IN (IF \E i \in DOMAIN t : t[i] \notin {" ", "\n", "\t"}
             THEN <<[kind |-> "thinking",
                     message |-> IF Len(t) <= 100 THEN t ELSE SubSeq(t, 1, 100) \o <<"...">>,
                     fullText |-> t]>>
             ELSE <<>>)
            \o ExpectedThinking(Tail(texts))

\* C20: the thinking entries of the Consumer are, in order, those due for
\* the reasoning parts passed to handleEvent.
C20_ReasoningMapping ==
    SelectSeq(consLog, IsThinking) = ExpectedThinking(reasoningTexts)

\* C20 witness: a text of 100 characters, then one of 101: two entries, the
\* second one cut.
C20_Witness ==
    /\ Len(reasoningTexts) = 2
    /\ Len(reasoningTexts[1]) = 100
    /\ Len(reasoningTexts[2]) = 101
    /\ Len(consLog) = 2
    /\ consLog[1].message = reasoningTexts[1]
    /\ Len(consLog[2].message) = 101
    /\ consLog[2].message[101] = "..."

IsToolCall(e) == e.kind = "tool_call"
IsCompletedPart(part) == "state" \in DOMAIN part /\ part.state.status = "completed"

\* C21: the tool_call entries of the Consumer are, in order, one for each
\* tool part whose state has the status completed and none for any other
\* tool part (running, pending, no state); the message of an entry is the
\* title of the tool, or its identifier when it has no title; its output is
\* the output of the tool when that has at most 2000 characters, and its
\* first 2000 characters followed by the truncation suffix otherwise.
C21_ToolMapping ==
    LET calls == SelectSeq(consLog, IsToolCall)
        done == SelectSeq(toolParts, IsCompletedPart)
    IN /\ Len(calls) = Len(done)
       /\ \A i \in DOMAIN calls :
            LET st == done[i].state
            IN /\ calls[i].message = IF "title" \in DOMAIN st /\ st.title # <<>>
                                     THEN st.title
                                     ELSE done[i].tool
               /\ ("output" \in DOMAIN calls[i]) = ("output" \in DOMAIN st)
               /\ "output" \in DOMAIN st =>
                    calls[i].output = IF Len(st.output) <= 2000
                                      THEN st.output
                                      ELSE SubSeq(st.output, 1, 2000) \o <<"\n... (truncated)">>

\* C21 witness: a running tool part, then a completed one with an empty
\* title and an output of 2001 characters: one entry, named after the tool,
\* its output cut.
C21_Witness ==
    /\ Len(toolParts) = 2
    /\ "state" \in DOMAIN toolParts[1]
    /\ toolParts[1].state.status = "running"
    /\ IsCompletedPart(toolParts[2])
    /\ "output" \in DOMAIN toolParts[2].state
    /\ Len(toolParts[2].state.output) = 2001
    /\ Len(consLog) = 1
    /\ consLog[1].kind = "tool_call"
    /\ consLog[1].message = toolParts[2].tool
    /\ Len(consLog[1].output) = 2001
    /\ consLog[1].output[2000] = "x"

\* C22: every iteration of the Poller loop performs the stop check before
\* its status query: whenever the Poller leaves the loop head, at least
\* 1000 ms have passed since the last stop check, so the rate limit lets the
\* check through, the check is made at that moment, and the Poller goes on
\* to the status query or to the stop handling; the status query is reached
\* from the loop head only.
C22_StopCheckEveryIteration ==
    [][/\ (pollerPc = "check" /\ pollerPc' # "check") =>
             /\ now - lastStopCheck >= 1000
             /\ lastStopCheck' = now
             /\ pollerPc' \in {"query", "stopping"}
       /\ (pollerPc # "query" /\ pollerPc' = "query") => pollerPc = "check"]_vars

\* C22 witness: the first status query failed at once, the backoff slept
\* 1000 ms, and the stop check of the second iteration was made exactly
\* 1000 ms after the first one.
C22_Witness ==
    /\ pollerPc = "query"
    /\ Len(queryHist) = 1
    /\ statusErrorCount = 1
    /\ now = StartClock + 1000
    /\ lastStopCheck = now

\* C23: a failing session abort during the stop handling is absorbed: the
\* Poller still ends with the "Stopped by user" outcome, runAgent leaves its
\* try block with that error and no other, and when runAgent has ended its
\* teardown has run: the feed was cancelled and the server closed, once each.
C23_BestEffortAbort ==
    abortError =>
        /\ stopObservedAt >= 0
        /\ pollerPc = "done"
        /\ pollerOutcome = StoppedByUser
        /\ supPc \in {"poll", "finally", "thrown"}
        /\ supPc \in {"finally", "thrown"} => thrown = StoppedByUser
        /\ supPc = "thrown" => abortCount = 1 /\ closeCount = 1

\* C23 witness: the session abort failed and runAgent has ended with
\* "Stopped by user", the server closed.
C23_Witness ==
    /\ abortError
    /\ sessionAbortCalls = 1
    /\ supPc = "thrown"
    /\ thrown = StoppedByUser
    /\ abortCount = 1
    /\ closeCount = 1

\* C24: the run record is read-only for the supervision loop: a step of the
\* Poller or of the Consumer leaves the run record as it is and makes no
\* call of main; the record changes only by the user's stop request or by
\* main, and main writes it only while runAgent is not running (it has
\* returned or thrown, or was never called).
C24_RunRecordReadOnly ==
    [][/\ (pollerVars' # pollerVars \/ consVars' # consVars) =>
             (rcs' = rcs /\ mainCalls' = mainCalls)
       /\ rcs' # rcs =>
             \/ stopWrittenAt = -1 /\ stopWrittenAt' = now
             \/ mainCalls' # mainCalls
       /\ mainCalls' # mainCalls =>
             /\ mainPc' = "exited"
             /\ supPc \in {"start", "returned", "thrown"}
             /\ UNCHANGED <<supVars, pollerVars, consVars>>]_vars

\* C24 witness: the Poller has observed the stop and ended, the Consumer has
\* logged an entry and ended, runAgent has thrown, and the run record is
\* still as the stop request wrote it before main's catch block.
C24_Witness ==
    /\ pollerOutcome = StoppedByUser
    /\ Len(pollerLog) > 0
    /\ Len(consLog) > 0
    /\ consPc = "ended"
    /\ supPc = "thrown"
    /\ mainPc = "agent"
    /\ mainCalls = <<>>
    /\ rcs = [status |-> "failed", error |-> StoppedByUser]

\* C25: the Consumer stops only on cancellation or when its retries are
\* exhausted; a feed that ends without an error while the run goes on is
\* opened again.
C25_ReopenAfterCleanEnd ==
    consPc = "ended" => (aborted \/ consEnd = "exhausted")

\* C26: an exception raised while a received event is handled consumes no
\* retry attempt and does not close the feed: the step that passes an event
\* to handleEvent leaves attempt as it is and leaves the Consumer on the
\* open feed.
C26_HandlerErrorsNotCounted ==
    [][handled' = handled + 1 =>
          /\ attempt' = attempt
          /\ consDelays' = consDelays
          /\ consPc' \in {"streaming", "handling"}]_vars

\* C27: two file entries whose (file, first 100 characters of after) pairs
\* differ never have the same dedup key.
C27_DedupKeyInjective ==
    \A d1, d2 \in handledDiffs :
        DedupPair(d1) # DedupPair(d2) => diffKey(d1) # diffKey(d2)

\* C28: no entry of the Consumer derives from an event of another session,
\* and the events of another session add no key to the dedup set.
C28_SessionScoping ==
    /\ \A i \in DOMAIN consLogSrc : consLogSrc[i][1] \notin foreignCalls
    /\ foreignCalls = 1..handled => loggedDiffKeys = {}

IsRunWrite(c) == c.op = "updateAgentRun"

====
